---- MODULE Spec2Model ----
(***************************************************************************)
(* Model of streamlit_app.py: the pending list of samples kept in the      *)
(* Streamlit session state (add / remove / clear), and the "Gerar          *)
(* planilha" run that fetches the sheet, matches the sample codes of       *)
(* column G, writes AF / AG / AH with one batchUpdate and builds the       *)
(* Excel export.                                                           *)
(*                                                                         *)
(* A text (Python str) is a sequence of one-character strings, so that     *)
(* str.strip() and the column arithmetic are computed, not assumed.        *)
(* A row of the sheet is a sequence of texts, the sheet a sequence of      *)
(* rows whose first row is the header (the "values" of the Sheets API).    *)
(***************************************************************************)
EXTENDS Integers, Sequences, FiniteSets, TLC

VARIABLES lista, in_codigo, in_os, msg, sheet, op, run, prev,
          colA, colB, idxA, idxB

vars == <<lista, in_codigo, in_os, msg, sheet, op, run, prev,
          colA, colB, idxA, idxB>>

col_vars == <<colA, colB, idxA, idxB>>

-----------------------------------------------------------------------------
(* Bounds of the model *)

MaxRows == 2

-----------------------------------------------------------------------------
(* Configuration constants *)

SHEET_NAME == <<"G", "e", "r", "a", "l">>
STATUS_COL == <<"A", "F">>
DATE_COL == <<"A", "G">>
OS_COL == <<"A", "H">>
SAMPLE_COL == <<"G">>
STATUS_VAL == <<"R", "e", "t", "o", "r", "n", "o", " ", "1", "2", "4", "1">>

Empty == <<>>

-----------------------------------------------------------------------------
(* Text helpers *)

Whitespace == {" "}

RECURSIVE lstrip(_)
lstrip(s) ==
    IF s = <<>> THEN <<>>
    ELSE IF Head(s) \in Whitespace THEN lstrip(Tail(s))
    ELSE s

RECURSIVE rstrip(_)
rstrip(s) ==
    IF s = <<>> THEN <<>>
    ELSE IF s[Len(s)] \in Whitespace THEN rstrip(SubSeq(s, 1, Len(s) - 1))
    ELSE s

strip(s) == rstrip(lstrip(s))

UpperLetters ==
    <<"A", "B", "C", "D", "E", "F", "G", "H", "I", "J", "K", "L", "M",
      "N", "O", "P", "Q", "R", "S", "T", "U", "V", "W", "X", "Y", "Z">>

LowerLetters ==
    <<"a", "b", "c", "d", "e", "f", "g", "h", "i", "j", "k", "l", "m",
      "n", "o", "p", "q", "r", "s", "t", "u", "v", "w", "x", "y", "z">>

upper(c) ==
    IF \E k \in DOMAIN LowerLetters : LowerLetters[k] = c
    THEN UpperLetters[CHOOSE k \in DOMAIN LowerLetters : LowerLetters[k] = c]
    ELSE c

\* ord() of an upper-case ASCII letter: ord("A") = 65
ord(c) == 64 + (CHOOSE k \in DOMAIN UpperLetters : UpperLetters[k] = c)

-----------------------------------------------------------------------------
(* _col_to_idx *)

RECURSIVE col_loop(_, _)
col_loop(col, idx) ==
    IF col = <<>> THEN idx
    ELSE col_loop(Tail(col), idx * 26 + (ord(upper(Head(col))) - 64))

\* plausible slip: the final "- 1" forgotten (one-based result)
col_to_idx_onebased(col) == col_loop(col, 0)

col_to_idx(col) == col_loop(col, 0) - 1

-----------------------------------------------------------------------------
(* The pending list: a Python dict {codigo: OS}, kept in insertion order as *)
(* a sequence of <<codigo, OS>> pairs with pairwise distinct codes.         *)

Keys(l) == {l[k][1] : k \in DOMAIN l}

Lookup(l, c) == l[CHOOSE k \in DOMAIN l : l[k][1] = c][2]

KeyList(l) == [k \in DOMAIN l |-> l[k][1]]

Pop(l, c) == SelectSeq(l, LAMBDA e : e[1] # c)

MsgPreencha == <<"Preencha **ambos** os campos.">>
MsgJaLancada(cod) == <<"Amostra ", cod, " ja lancada.">>
MsgRemovida(cod) == <<"Amostra ", cod, " removida.">>

\* plausible slip: the duplicate check left out, so a second add of a code
\* replaces the stored OS
add_item_overwrite(s) ==
    LET cod == strip(s.in_codigo)
        osv == strip(s.in_os)
    IN  IF cod = <<>> \/ osv = <<>>
        THEN [s EXCEPT !.msg = MsgPreencha]
        ELSE [lista |-> Append(Pop(s.lista, cod), <<cod, osv>>),
              in_codigo |-> Empty, in_os |-> Empty, msg |-> Empty]

\* add_item on the session state s = [lista, in_codigo, in_os, msg]
add_item(s) ==
    LET cod == strip(s.in_codigo)
        osv == strip(s.in_os)
    IN  IF cod = <<>> \/ osv = <<>>
        THEN [s EXCEPT !.msg = MsgPreencha]
        ELSE IF cod \in Keys(s.lista)
        THEN [s EXCEPT !.msg = MsgJaLancada(cod)]
        ELSE [lista |-> Append(s.lista, <<cod, osv>>),
              in_codigo |-> Empty, in_os |-> Empty, msg |-> Empty]

-----------------------------------------------------------------------------
(* datetime.now().strftime("%d/%m/%Y") *)

Digits == <<"0", "1", "2", "3", "4", "5", "6", "7", "8", "9">>

Digit(n) == Digits[n + 1]

strftime(now) ==
    <<Digit(now.d \div 10), Digit(now.d % 10), "/",
      Digit(now.m \div 10), Digit(now.m % 10), "/",
      Digit(now.y \div 1000), Digit((now.y \div 100) % 10),
      Digit((now.y \div 10) % 10), Digit(now.y % 10)>>

-----------------------------------------------------------------------------
(* update_rows *)

Cmd(col, idx, v) ==
    [range |-> [sheet |-> SHEET_NAME, col |-> col, row |-> idx],
     values |-> <<<<v>>>>]

\* plausible slip: the date and the OS written to each other's column
RECURSIVE update_rows_data_swapped(_, _, _)
update_rows_data_swapped(rows_idx, today, os_vals) ==
    IF rows_idx = <<>> \/ os_vals = <<>> THEN <<>>
    ELSE <<Cmd(STATUS_COL, Head(rows_idx), STATUS_VAL),
           Cmd(DATE_COL, Head(rows_idx), Head(os_vals)),
           Cmd(OS_COL, Head(rows_idx), today)>>
         \o update_rows_data_swapped(Tail(rows_idx), today, Tail(os_vals))

\* plausible slip: the status written to the sample-code column
RECURSIVE update_rows_data_samplecol(_, _, _)
update_rows_data_samplecol(rows_idx, today, os_vals) ==
    IF rows_idx = <<>> \/ os_vals = <<>> THEN <<>>
    ELSE <<Cmd(SAMPLE_COL, Head(rows_idx), STATUS_VAL),
           Cmd(DATE_COL, Head(rows_idx), today),
           Cmd(OS_COL, Head(rows_idx), Head(os_vals))>>
         \o update_rows_data_samplecol(Tail(rows_idx), today, Tail(os_vals))

\* the "data" list built by the zip loop: three ranges per row
RECURSIVE update_rows_data(_, _, _)
update_rows_data(rows_idx, today, os_vals) ==
    IF rows_idx = <<>> \/ os_vals = <<>> THEN <<>>
    ELSE <<Cmd(STATUS_COL, Head(rows_idx), STATUS_VAL),
           Cmd(DATE_COL, Head(rows_idx), today),
           Cmd(OS_COL, Head(rows_idx), Head(os_vals))>>
         \o update_rows_data(Tail(rows_idx), today, Tail(os_vals))

MsgInconsistencia == <<"Inconsistencia interna: linhas e OS nao batem.">>
MsgFalhaGravar(e) == <<"Falha ao gravar no Google Sheets: ", e>>

\* plausible slip: the HttpError of batchUpdate swallowed, the run goes on
update_rows_swallow(rows_idx, today, os_vals, write_res) ==
    IF Len(rows_idx) # Len(os_vals)
    THEN [stopped |-> TRUE, errors |-> <<MsgInconsistencia>>,
          calls |-> <<>>, applied |-> FALSE]
    ELSE [stopped |-> FALSE, errors |-> <<>>,
          calls |-> <<update_rows_data(rows_idx, today, os_vals)>>,
          applied |-> (write_res = "ok")]

\* update_rows: the batchUpdate calls it makes, the st.error messages, whether
\* it ended the run with st.stop(), and whether the write was applied
update_rows(rows_idx, today, os_vals, write_res) ==
    IF Len(rows_idx) # Len(os_vals)
    THEN [stopped |-> TRUE, errors |-> <<MsgInconsistencia>>,
          calls |-> <<>>, applied |-> FALSE]
    ELSE IF write_res = "ok"
    THEN [stopped |-> FALSE, errors |-> <<>>,
          calls |-> <<update_rows_data(rows_idx, today, os_vals)>>,
          applied |-> TRUE]
    ELSE [stopped |-> TRUE, errors |-> <<MsgFalhaGravar(write_res)>>,
          calls |-> <<update_rows_data(rows_idx, today, os_vals)>>,
          applied |-> FALSE]

-----------------------------------------------------------------------------
(* The sheet store's side of values.batchUpdate with valueInputOption RAW: *)
(* each range names one cell, which is overwritten; a row shorter than the *)
(* column is extended with empty cells.                                    *)

Blanks(n) == [k \in 1..n |-> Empty]

SetCell(sh, r, c, v) ==
    LET grown == IF r > Len(sh) THEN sh \o [k \in 1..(r - Len(sh)) |-> <<>>]
                 ELSE sh
        row == grown[r]
        wide == IF c > Len(row) THEN row \o Blanks(c - Len(row)) ELSE row
    IN  [grown EXCEPT ![r] = [wide EXCEPT ![c] = v]]

RECURSIVE batchUpdate(_, _)
batchUpdate(sh, data) ==
    IF data = <<>> THEN sh
    ELSE batchUpdate(
            SetCell(sh, Head(data).range.row,
                    col_loop(Head(data).range.col, 0),
                    Head(data).values[1][1]),
            Tail(data))

-----------------------------------------------------------------------------
(* The "gerar" block *)

\* the sample code read from one row (zero-based sample_idx)
row_code(row, sample_idx) ==
    IF sample_idx < Len(row) THEN strip(row[sample_idx + 1]) ELSE Empty

NoMatch ==
    [rows_idx |-> <<>>, os_vals |-> <<>>, rows_data |-> <<>>,
     encontrados |-> {}]

\* for i, row in enumerate(data, start=...): the row-matching loop
RECURSIVE match_rows(_, _, _, _, _)
match_rows(data, i, l, sample_idx, acc) ==
    IF data = <<>> THEN acc
    ELSE LET row == Head(data)
             code == row_code(row, sample_idx)
         IN  match_rows(Tail(data), i + 1, l, sample_idx,
                IF code \in Keys(l)
                THEN [rows_idx |-> Append(acc.rows_idx, i),
                      os_vals |-> Append(acc.os_vals, Lookup(l, code)),
                      rows_data |-> Append(acc.rows_data, row),
                      encontrados |-> acc.encontrados \cup {code}]
                ELSE acc)

nao_encontrados(l, encontrados) ==
    SelectSeq(KeyList(l), LAMBDA c : c \notin encontrados)

\* plausible slip: the early stop on "no row found" never taken
stops_without_rows_never(rows_idx) == Len(rows_idx) < 0

\* if not rows_idx: st.stop()
stops_without_rows(rows_idx) == rows_idx = <<>>

\* one export row: pad to the header width, then the three item assignments;
\* ok is FALSE when an assignment raises IndexError
norm_row(row, header, os_val, today, status_idx, date_idx, os_idx) ==
    LET padded == IF Len(header) > Len(row)
                  THEN row \o Blanks(Len(header) - Len(row))
                  ELSE row
    IN  IF status_idx < Len(padded) /\ date_idx < Len(padded)
           /\ os_idx < Len(padded)
        THEN [ok |-> TRUE,
              row |-> [padded EXCEPT ![status_idx + 1] = STATUS_VAL,
                                     ![date_idx + 1] = today,
                                     ![os_idx + 1] = os_val]]
        ELSE [ok |-> FALSE, row |-> padded]

\* for row, os_val in zip(rows_data, os_vals): norm_rows.append(row)
RECURSIVE norm_rows(_, _, _, _)
norm_rows(rows_data, os_vals, header, today) ==
    IF rows_data = <<>> \/ os_vals = <<>> THEN [ok |-> TRUE, rows |-> <<>>]
    ELSE LET r == norm_row(Head(rows_data), header, Head(os_vals), today,
                           col_to_idx(STATUS_COL), col_to_idx(DATE_COL),
                           col_to_idx(OS_COL))
             rest == norm_rows(Tail(rows_data), Tail(os_vals), header, today)
         IN  IF r.ok
             THEN [ok |-> rest.ok, rows |-> <<r.row>> \o rest.rows]
             ELSE [ok |-> FALSE, rows |-> <<>>]

\* pd.DataFrame(norm_rows, columns=header) raises ValueError unless every
\* row has as many cells as the header
frame_ok(rows, header) == \A k \in DOMAIN rows : Len(rows[k]) = Len(header)

\* the Excel file offered for download
excel(rows, header, l, nao, today) ==
    [file_name |-> <<"amostras_", today, ".xlsx">>,
     sheets |-> IF nao # <<>> THEN <<"Amostras", "Nao_Encontradas">>
                ELSE <<"Amostras">>,
     Amostras |-> [columns |-> header, rows |-> rows],
     Nao_Encontradas |->
        [k \in DOMAIN nao |->
            [Amostra |-> nao[k], OS_informada |-> Lookup(l, nao[k])]]]

MsgListaVazia == <<"A lista esta vazia.">>
MsgAbaVazia == <<"Aba vazia.">>

\* what a run that has not happened leaves behind
no_run(l, sh) ==
    [outcome |-> "idle", errors |-> <<>>, uncaught |-> "none",
     warnings |-> <<>>, fetch_result |-> "not_called",
     write_result |-> "not_called", fetch_calls |-> 0, write_calls |-> <<>>,
     rows_idx |-> <<>>, os_vals |-> <<>>, nao_encontrados |-> <<>>,
     today |-> Empty, downloads |-> <<>>, success |-> <<>>,
     lista |-> l, sheet_before |-> sh, sheet_after |-> sh]

\* One script run with the "Gerar planilha" button pressed: l is the pending
\* list, sh the remote sheet, fetch_res / write_res what the two network
\* calls answer, now the clock. The result records everything the run
\* showed, called and produced.
gerar_run(l, sh, fetch_res, write_res, now) ==
    LET base == no_run(l, sh) IN
    IF l = <<>>
    THEN [base EXCEPT !.outcome = "lista_vazia", !.errors = <<MsgListaVazia>>]
    ELSE IF fetch_res # "ok"
    THEN [base EXCEPT !.outcome = "fetch_raised", !.uncaught = fetch_res,
                      !.fetch_result = fetch_res, !.fetch_calls = 1]
    ELSE IF sh = <<>>
    THEN [base EXCEPT !.outcome = "aba_vazia", !.errors = <<MsgAbaVazia>>,
                      !.fetch_result = "ok", !.fetch_calls = 1]
    ELSE
    LET header == Head(sh)
        data == Tail(sh)
        m == match_rows(data, 2, l, col_to_idx(SAMPLE_COL), NoMatch)
        nao == nao_encontrados(l, m.encontrados)
        matched == [base EXCEPT !.fetch_result = "ok", !.fetch_calls = 1,
                                !.rows_idx = m.rows_idx,
                                !.os_vals = m.os_vals,
                                !.nao_encontrados = nao,
                                !.warnings = IF nao # <<>> THEN <<nao>>
                                             ELSE <<>>]
    IN
    IF stops_without_rows(m.rows_idx)
    THEN [matched EXCEPT !.outcome = "nenhuma_encontrada"]
    ELSE
    LET today == strftime(now)
        u == update_rows(m.rows_idx, today, m.os_vals, write_res)
        after == IF u.applied /\ u.calls # <<>>
                 THEN batchUpdate(sh, u.calls[1]) ELSE sh
        written == [matched EXCEPT !.today = today,
                                   !.errors = u.errors,
                                   !.write_calls = u.calls,
                                   !.write_result = IF u.calls # <<>>
                                                    THEN write_res
                                                    ELSE "not_called",
                                   !.sheet_after = after]
    IN
    IF u.stopped
    THEN [written EXCEPT !.outcome = IF u.calls = <<>> THEN "inconsistencia"
                                     ELSE "write_failed"]
    ELSE
    LET n == norm_rows(m.rows_data, m.os_vals, header, today) IN
    IF ~n.ok
    THEN [written EXCEPT !.outcome = "export_raised",
                         !.uncaught = "IndexError"]
    ELSE IF ~frame_ok(n.rows, header)
    THEN [written EXCEPT !.outcome = "export_raised",
                         !.uncaught = "ValueError"]
    ELSE [written EXCEPT !.outcome = "done",
                         !.success = <<[ok |-> Len(n.rows),
                                        missing |-> Len(nao)]>>,
                         !.downloads = <<excel(n.rows, header, l, nao,
                                               today)>>]

-----------------------------------------------------------------------------------------------------------------------------------------------------------------------------------------------------------------------------
(* Inputs *)

\* what the operator may type into the two text inputs
CodeInputs == {<<" ">>, <<"a">>, <<" ", "a", " ">>, <<"b">>}
OsInputs == {<<>>, <<"1">>, <<"2", " ">>}

\* what the two network calls may answer
FetchResults == {"ok", "HttpError"}
WriteResults == {"ok", "HttpError"}

\* the clock of a run
Nows == {[d |-> 3, m |-> 11, y |-> 2026]}

\* rows of the remote sheet: n cells, the sample code g in column G
MkRow(n, g) == [k \in 1..n |-> IF k = 7 THEN g ELSE <<"x">>]
MkHeader(n) == [k \in 1..n |-> <<"h">>]

SheetRows ==
    {MkRow(3, Empty), MkRow(7, <<" ", "a", " ">>), MkRow(35, <<"b">>)}

SheetHeaders == {MkHeader(7), MkHeader(34)}

\* the sheets a fetch may find: empty, header only, or up to MaxRows rows
Sheets ==
    {<<>>} \cup
    {<<h>> \o d : h \in SheetHeaders,
                  d \in UNION {[1..n -> SheetRows] : n \in 0..MaxRows}}

-----------------------------------------------------------------------------
(* The state machine.                                                       *)
(*                                                                          *)
(* run is what the latest script run of the gerar block showed, called and  *)
(* produced: Streamlit redraws the page on every interaction, so a run      *)
(* without the "Gerar planilha" button pressed shows none of it. prev is    *)
(* the gerar run immediately before, when that run wrote to the sheet.      *)
(*                                                                          *)
(* sheet is the remote sheet. The program keeps no copy of it and fetches   *)
(* it anew in every run; it is followed from one gerar run to the gerar run *)
(* right after it (nobody else writing in between), and is any sheet of     *)
(* Sheets when the operator worked on the list in between.                  *)

Session == [lista |-> lista, in_codigo |-> in_codigo, in_os |-> in_os,
            msg |-> msg]

Idle == no_run(<<>>, <<>>)

Unseen == [seen |-> FALSE, values |-> <<>>]

Fetchable == IF sheet.seen THEN {sheet.values} ELSE Sheets

Init ==
    /\ lista = <<>>
    /\ in_codigo = Empty
    /\ in_os = Empty
    /\ msg = Empty
    /\ sheet = Unseen
    /\ op = [name |-> "start", cod |-> Empty, osv |-> Empty]
    /\ run = Idle
    /\ prev = Idle
    /\ colA = <<>>
    /\ colB = <<>>
    /\ idxA = 0
    /\ idxB = 0

\* the operator fills the two inputs and presses "Adicionar"
AddItem ==
    \E c \in CodeInputs, o \in OsInputs :
        LET s == add_item([Session EXCEPT !.in_codigo = c, !.in_os = o]) IN
        /\ lista' = s.lista
        /\ in_codigo' = s.in_codigo
        /\ in_os' = s.in_os
        /\ msg' = s.msg
        /\ op' = [name |-> "add", cod |-> c, osv |-> o]
        /\ run' = Idle
        /\ prev' = Idle
        /\ sheet' = Unseen
        /\ UNCHANGED col_vars

\* the "Remover" button of one line of the list
Remove ==
    \E c \in Keys(lista) :
        /\ lista' = Pop(lista, c)
        /\ msg' = MsgRemovida(c)
        /\ op' = [name |-> "remove", cod |-> c, osv |-> Empty]
        /\ run' = Idle
        /\ prev' = Idle
        /\ sheet' = Unseen
        /\ UNCHANGED <<in_codigo, in_os, col_vars>>

\* the "Limpar lista" button
Clear ==
    /\ lista' = <<>>
    /\ msg' = Empty
    /\ op' = [name |-> "clear", cod |-> Empty, osv |-> Empty]
    /\ run' = Idle
    /\ prev' = Idle
    /\ sheet' = Unseen
    /\ UNCHANGED <<in_codigo, in_os, col_vars>>

Wrote(r) == r.write_result = "ok"

\* plausible slip: the list emptied once the export is ready
GerarClearing ==
    /\ \E sh \in Fetchable, f \in FetchResults, w \in WriteResults,
          now \in Nows :
          /\ run' = gerar_run(lista, sh, f, w, now)
          /\ lista' = IF run'.outcome = "done" THEN <<>> ELSE lista
    /\ prev' = IF Wrote(run) THEN [run EXCEPT !.downloads = <<>>] ELSE Idle
    /\ sheet' = [seen |-> TRUE, values |-> run'.sheet_after]
    /\ op' = [name |-> "gerar", cod |-> Empty, osv |-> Empty]
    /\ UNCHANGED <<in_codigo, in_os, msg, col_vars>>

\* the "Gerar planilha" button: one whole run of the gerar block
Gerar ==
    /\ \E sh \in Fetchable, f \in FetchResults, w \in WriteResults,
          now \in Nows :
          run' = gerar_run(lista, sh, f, w, now)
    /\ prev' = IF Wrote(run) THEN [run EXCEPT !.downloads = <<>>] ELSE Idle
    /\ sheet' = [seen |-> TRUE, values |-> run'.sheet_after]
    /\ op' = [name |-> "gerar", cod |-> Empty, osv |-> Empty]
    /\ UNCHANGED <<lista, in_codigo, in_os, msg, col_vars>>

Next == AddItem \/ Remove \/ Clear \/ Gerar

Spec == Init /\ [][Next]_vars

-----------------------------------------------------------------------------
(* _col_to_idx applied to pairs of column labels of one or two letters *)

Letters == {UpperLetters[k] : k \in DOMAIN UpperLetters}

Labels == {<<x>> : x \in Letters} \cup {<<x, y>> : x \in Letters, y \in Letters}

InitCol ==
    /\ lista = <<>>
    /\ in_codigo = Empty
    /\ in_os = Empty
    /\ msg = Empty
    /\ sheet = Unseen
    /\ op = [name |-> "start", cod |-> Empty, osv |-> Empty]
    /\ run = Idle
    /\ prev = Idle
    /\ colA \in Labels
    /\ colB = <<>>
    /\ idxA = 0
    /\ idxB = 0

\* one application to a pair of labels: colA drawn by InitCol, colB here
ColToIdx ==
    /\ colB = <<>>
    /\ \E b \in Labels :
          /\ colB' = b
          /\ idxB' = col_to_idx(b)
    /\ idxA' = col_to_idx(colA)
    /\ UNCHANGED <<colA, lista, in_codigo, in_os, msg, sheet, op, run, prev>>

NextCol == ColToIdx

SpecCol == InitCol /\ [][NextCol]_vars

-----------------------------------------------------------------------------
(* Vocabulary of the properties *)

\* the trimmed sample code of sheet row i (1-based, the header is row 1)
CodeAt(sh, i) == IF Len(sh[i]) >= 7 THEN strip(sh[i][7]) ELSE Empty

\* the data rows of the snapshot whose sample code is a pending code
RowsWithPendingCode(r) ==
    {i \in 2..Len(r.sheet_before) : CodeAt(r.sheet_before, i) \in Keys(r.lista)}

Elems(q) == {q[k] : k \in DOMAIN q}

\* a run of the gerar block that fetched a snapshot for a non-empty list
Fetched(r) == r.lista # <<>> /\ r.fetch_result = "ok"

\* the snapshot has data rows and none of them carries a pending code
ZeroMatches(r) ==
    Fetched(r) /\ Len(r.sheet_before) >= 2 /\ RowsWithPendingCode(r) = {}

\* the run got as far as the update step
ReachedUpdate(r) ==
    Fetched(r) /\ r.sheet_before # <<>> /\ RowsWithPendingCode(r) # {}

CellWrite(col, i, v) ==
    [range |-> [sheet |-> <<"G", "e", "r", "a", "l">>, col |-> col, row |-> i],
     values |-> <<<<v>>>>]

-----------------------------------------------------------------------------
\* C1: every pending code matches at most one snapshot row: no two rows
\* recorded as matched by a run carry the same sample code (with duplicates
\* in column G only the lowest row index is matched).
C1_FirstWins ==
    \A j, k \in DOMAIN run.rows_idx :
        j # k => CodeAt(run.sheet_before, run.rows_idx[j])
                   # CodeAt(run.sheet_before, run.rows_idx[k])

\* C2: with a non-empty list, a fetched snapshot with no rows or with the
\* header only ends in the fatal "Aba vazia." outcome, and the zero-matches
\* outcome is reached only with at least one data row.
C2_EmptySnapshotFatal ==
    /\ (Fetched(run) /\ Len(run.sheet_before) <= 1) =>
          (run.outcome = "aba_vazia" /\ run.errors = <<MsgAbaVazia>>
           /\ run.write_calls = <<>>)
    /\ run.outcome = "nenhuma_encontrada" => Len(run.sheet_before) >= 2

\* C3 as stated: with data rows and no pending code found, the run writes
\* nothing, warns with the unmatched codes and still offers the export with
\* the "Nao_Encontradas" table of every unmatched code and its OS.
C3_ZeroMatchesExport ==
    ZeroMatches(run) =>
        /\ run.write_calls = <<>>
        /\ run.warnings = <<KeyList(run.lista)>>
        /\ Len(run.downloads) = 1
        /\ \A c \in Keys(run.lista) :
              [Amostra |-> c, OS_informada |-> Lookup(run.lista, c)]
                 \in Elems(run.downloads[1].Nao_Encontradas)

\* C3 amended: with data rows and no pending code found, the run writes
\* nothing, warns with all the pending codes as unmatched, and stops there:
\* no export is produced and no success message is shown.
C3_ZeroMatchesStops ==
    ZeroMatches(run) =>
        /\ run.write_calls = <<>>
        /\ run.sheet_after = run.sheet_before
        /\ run.warnings = <<KeyList(run.lista)>>
        /\ run.nao_encontrados = KeyList(run.lista)
        /\ run.downloads = <<>>
        /\ run.success = <<>>
        /\ run.errors = <<>>

C3_Witness ==
    /\ op.name = "gerar"
    /\ ZeroMatches(run)
    /\ Len(run.lista) = 2
    /\ run.warnings # <<>>

\* C4: after a successful write the export is built without failing, for
\* any header width and row length: one export row per matched row, each
\* with exactly header-width cells, the OS cell (AH) holding the OS of the
\* row's code, the status cell (AF) "Retorno 1241", the date cell (AG) the
\* run date, and every other cell the original cell or "" where padded.
C4_ExportRows ==
    Wrote(run) =>
        /\ Len(run.downloads) = 1
        /\ LET out == run.downloads[1].Amostras.rows
               width == Len(run.sheet_before[1])
           IN  /\ Len(out) = Len(run.rows_idx)
               /\ \A k \in DOMAIN out :
                    LET i == run.rows_idx[k]
                        orig == run.sheet_before[i]
                    IN  /\ Len(out[k]) = width
                        /\ out[k][34] =
                              Lookup(run.lista, CodeAt(run.sheet_before, i))
                        /\ out[k][32] = STATUS_VAL
                        /\ out[k][33] = run.today
                        /\ \A c \in 1..width :
                              c \notin {32, 33, 34} =>
                                 out[k][c] = IF c <= Len(orig) THEN orig[c]
                                             ELSE Empty

\* C5: a run that reaches the update step issues exactly one batch write,
\* carrying exactly three cell writes per matched row and no others:
\* AF{i} <- "Retorno 1241", AG{i} <- run date, AH{i} <- the OS stored in the
\* pending list for the code found in row i.
C5_OneBatchWrite ==
    ReachedUpdate(run) =>
        /\ Len(run.write_calls) = 1
        /\ \E now \in Nows : run.today = strftime(now)
        /\ Elems(run.rows_idx) = RowsWithPendingCode(run)
        /\ Len(run.write_calls[1]) = 3 * Len(run.rows_idx)
        /\ Elems(run.write_calls[1]) =
              UNION {{CellWrite(<<"A", "F">>, i, STATUS_VAL),
                      CellWrite(<<"A", "G">>, i, run.today),
                      CellWrite(<<"A", "H">>, i,
                         Lookup(run.lista, CodeAt(run.sheet_before, i)))}
                     : i \in Elems(run.rows_idx)}

C5_Witness ==
    /\ op.name = "gerar"
    /\ ReachedUpdate(run)
    /\ Len(run.rows_idx) = 2
    /\ run.os_vals[1] # run.os_vals[2]
    /\ Len(run.write_calls) = 1

\* C6: an add whose trimmed code is empty, whose trimmed OS is empty or
\* whose trimmed code is already a key of the list leaves the list unchanged
\* (same keys, same stored OS values) and sets a non-empty message; an add
\* changes the list only when it passes the three checks, and then appends
\* the trimmed pair.
C6_AddValidation ==
    [][op'.name = "add" =>
         LET cod == strip(op'.cod)
             osv == strip(op'.osv)
             rejected == cod = <<>> \/ osv = <<>> \/ cod \in Keys(lista)
         IN  /\ rejected => (lista' = lista /\ msg' # <<>>)
             /\ ~rejected => lista' = Append(lista, <<cod, osv>>)]_vars

C6_Witness ==
    /\ op.name = "add"
    /\ strip(op.cod) \in Keys(lista)
    /\ strip(op.osv) # <<>>
    /\ Lookup(lista, strip(op.cod)) # strip(op.osv)
    /\ msg # <<>>

\* C7: the pending list is changed only by add, remove and clear: a gerar
\* run, whatever its outcome, leaves the list exactly as it was.
C7_GerarKeepsLista ==
    [][/\ op'.name = "gerar" => (lista' = lista /\ run'.lista = lista)
       /\ lista' # lista => op'.name \in {"add", "remove", "clear"}]_vars

C7_Witness ==
    /\ op.name = "gerar"
    /\ run.write_result = "HttpError"
    /\ lista = run.lista
    /\ Len(lista) = 2

C9_Idempotent ==
    (/\ Wrote(prev)
     /\ run.lista = prev.lista
     /\ run.sheet_before = prev.sheet_after
     /\ run.fetch_result = "ok"
     /\ run.write_result # "HttpError") =>
        /\ Wrote(run)
        /\ run.today = prev.today
        /\ run.rows_idx = prev.rows_idx
        /\ run.nao_encontrados = prev.nao_encontrados
        /\ Elems(run.write_calls[1]) = Elems(prev.write_calls[1])
        /\ run.sheet_after = prev.sheet_after

C9_Witness ==
    /\ Wrote(prev)
    /\ Wrote(run)
    /\ run.lista = prev.lista
    /\ Len(run.rows_idx) = 2
    /\ run.nao_encontrados # <<>>
    /\ run.sheet_before # prev.sheet_before

\* spreadsheet order of column labels: shorter first, then letter by letter
Pos(c) == CHOOSE k \in DOMAIN UpperLetters : UpperLetters[k] = c

Before(a, b) ==
    \/ Len(a) < Len(b)
    \/ /\ Len(a) = Len(b)
       /\ \E k \in DOMAIN a :
             /\ Pos(a[k]) < Pos(b[k])
             /\ \A j \in 1..(k - 1) : a[j] = b[j]

\* C10: over the labels of one or two upper-case letters _col_to_idx is
\* strictly increasing in spreadsheet order and is the zero-based index (the
\* number of labels before the label), with A -> 0, G -> 6, Z -> 25,
\* AA -> 26, AF -> 31, AG -> 32, AH -> 33.
C10_ColToIdx ==
    colB # <<>> =>
        /\ Before(colA, colB) => idxA < idxB
        /\ colA = colB => idxA = Cardinality({l \in Labels : Before(l, colA)})
        /\ colA = <<"A">> => idxA = 0
        /\ colA = <<"G">> => idxA = 6
        /\ colA = <<"Z">> => idxA = 25
        /\ colA = <<"A", "A">> => idxA = 26
        /\ colA = <<"A", "F">> => idxA = 31
        /\ colA = <<"A", "G">> => idxA = 32
        /\ colA = <<"A", "H">> => idxA = 33

C10_Witness ==
    /\ colA = <<"Z">>
    /\ colB = <<"A", "A">>
    /\ idxA = 25
    /\ idxB = 26

====
